---- MODULE Spec2Model ----
(***************************************************************************)
(* PromisePool (src/src/index.ts): a pool that limits how many async      *)
(* functions run at once and suspends the producer while it is full.      *)
(*                                                                         *)
(* The pool runs on the Node event loop.  One step of the model is one    *)
(* synchronous run of pool code: the synchronous part of a start() or     *)
(* flush() call, the continuation of an `await` (a promise job), a        *)
(* setImmediate callback, or the settlement handler _onJoin.  Promise     *)
(* jobs run first-in first-out and all of them run before the next        *)
(* setImmediate callback.  Callers of start() and flush() and the units   *)
(* of work are the environment: they may call or settle between any two   *)
(* steps (Spec, LiveSpec).  TestSpec puts the producers of the tests of   *)
(* src/test/index.js in the place of the free callers: loops that await   *)
(* every start call, a burst of calls that awaits none, and the script    *)
(* that pushes markers.                                                    *)
(***************************************************************************)
EXTENDS Integers, Sequences, FiniteSets, TLC

\* ---------------------------------------------------------------- bounds

\* Units of work (and the start calls that submit them) that can be in the
\* pool at the same time; an identity is free again once its unit settled.
MaxUnits == 3

\* flush() calls made over the life of a pool.
MaxFlushCalls == 2

\* Units that settle with failure over the life of a pool.
MaxFailures == 2

\* Units of work that can be in the pool at the same time when the callers
\* are the producers of the test suite.
MaxTestUnits == 4

Units == 1..MaxUnits

TestUnits == 1..MaxTestUnits

\* ------------------------------------------------------- the test suite

\* Promise.all([useArray(), useArray(), useArray()]): the most producers that
\* share a pool.
MaxProducers == 3

Producers == 1..MaxProducers

\* const array = [1, 2, 3, 4, 5]: the start calls one producer makes.
UnitsPerProducer == 5

\* The statements of 'should limit concurrent execution to 1' that end in an
\* await: two start calls and the flush call.
ScriptAwaits == 3

FlushCalls == 1..MaxFlushCalls

\* ------------------------------------------------------- program constants

\* asPositiveInteger(options.numConcurrent, 4, 1)
DefaultNumConcurrent == 4

\* asPositiveInteger(options.maxPending, 1, 1)
DefaultMaxPending == 1

MinValue == 1

\* ------------------------------------------------------------- JS values

\* A JavaScript value as the constructor sees it: its typeof, and for a
\* number whether it is finite (the rational num/den), NaN or infinite.
JSValue(type, kind, num, den) == [type |-> type, kind |-> kind, num |-> num, den |-> den]

Undefined == JSValue("undefined", "none", 0, 1)

Num(n) == JSValue("number", "finite", n, 1)

Frac(n, d) == JSValue("number", "finite", n, d)

\* 2^16: `value | 0` keeps the low 32 bits of the integer part, two halves of
\* 16 bits.
TwoTo16 == 65536

\* The number h * 2^16 for h >= 2^15: an integer of 2^31 or more, written by
\* its upper half because it is beyond the integers of the model.
Large(h) == JSValue("number", "large", h, 1)

NaN == JSValue("number", "NaN", 0, 1)

PosInfinity == JSValue("number", "Infinity", 0, 1)

\* A value that is not a number, such as 'x'.
Str == JSValue("string", "none", 0, 1)

\* value <= 0 on a JS number: false for NaN.
LeqZero(value) ==
    CASE value.kind = "finite"    -> value.num <= 0
      [] value.kind = "-Infinity" -> TRUE
      [] OTHER                    -> FALSE

\* value | 0, the ToInt32 of ECMAScript: NaN and the infinities become 0; a
\* finite number is truncated toward zero, reduced modulo 2^32 and read as a
\* signed 32-bit integer, so 2^31 and more wrap around.
ToInt32(value) ==
    CASE value.kind = "finite" ->
            IF value.num >= 0 THEN value.num \div value.den
            ELSE -((-value.num) \div value.den)
      [] value.kind = "large" ->
            LET upper == value.num % TwoTo16
            IN  IF upper < TwoTo16 \div 2 THEN upper * TwoTo16
                ELSE (upper - TwoTo16) * TwoTo16
      [] OTHER -> 0

asPositiveInteger(value, defaultValue, minValue) ==
    IF value.type # "number" THEN defaultValue
    ELSE IF LeqZero(value) THEN minValue
    ELSE LET truncated == ToInt32(value)
         IN  IF truncated <= 0 THEN minValue
             ELSE IF truncated > 0 THEN truncated
             ELSE defaultValue

\* The options the pools of this model are constructed with.
NumConcurrentInputs == {Num(1), Num(2), Frac(2, 5)}

MaxPendingInputs == {Undefined, Num(2)}

\* ----------------------------------------------------------------- state

VARIABLES
    numConcurrent,  \* this._numConcurrent
    maxPending,     \* this._maxPending
    numActive,      \* this._numActive
    isDone,         \* this._isDone
    waitingDone,    \* this._waitingDone
    pending,        \* this._pending: the suspended start calls, oldest first
    errors,         \* this._errors
    doneListeners,  \* the once('done') listeners: the suspended flush calls
    microtasks,     \* promise jobs: the awaits of start and flush to resume
    immediates,     \* setImmediate callbacks not yet run, oldest first
    running,        \* units whose fn was called and has not settled
    flushRet,       \* per flush call: idle, suspended or resolved, and the value returned
    numFailed,      \* units that settled with failure so far
    waitOrder,      \* the start calls waiting for a slot, in the order they were suspended
    lastCall,       \* the step taken last and how it ended
    scenario,       \* who calls the pool: any caller, or the producers of one test
    producers,      \* per producer of a test: where it stands in its code
    ops             \* const ops = []: the markers the test's script and units push

vars == <<numConcurrent, maxPending, numActive, isDone, waitingDone, pending,
          errors, doneListeners, microtasks, immediates, running, flushRet,
          numFailed, waitOrder, lastCall, scenario, producers, ops>>

\* What only the callers of a test write.
callerVars == <<scenario, producers, ops>>

\* typeof fn of the value handed to start().
FnTypes == {"function", "undefined"}

\* What a unit of work can reject with; undefined stands for the falsy ones.
Reasons == {"ErrA", "ErrB", "undefined"}

\* How the promise of a unit settles: it fulfils, or rejects with a reason.
Fulfilled == "fulfilled"

Settlements == {Fulfilled} \cup Reasons

Truthy(err) == err \notin {"null", "undefined"}

Call(op, id, fnType, outcome) ==
    [op |-> op, id |-> id, fn |-> fnType, outcome |-> outcome, err |-> "none"]

\* A run of _onJoin(err) for unit u and what it did.
JoinCall(u, err, outcome) ==
    [op |-> "onJoin", id |-> u, fn |-> "function", outcome |-> outcome, err |-> err]

StartJob(u) == [kind |-> "start", id |-> u]

FlushJob(c) == [kind |-> "flush", id |-> c]

SeqToSet(s) == {s[i] : i \in 1..Len(s)}

\* Start calls whose waiter was released by _onJoin and has not resumed yet.
Released == {j.id : j \in {x \in SeqToSet(microtasks) : x.kind = "start"}}

\* Identities in use: a start call suspended or a unit not yet settled.
InPool == SeqToSet(pending) \cup Released \cup SeqToSet(immediates) \cup running

Idle == Units \ InPool

Min(S) == CHOOSE x \in S : \A y \in S : x <= y

\* The identity the next start call gets; 0 when every identity is in use, and
\* then only a start call that throws can be taken.
NextUnit == IF Idle = {} THEN 0 ELSE Min(Idle)

\* A flush call: not made yet, suspended at `await done`, or resolved with the
\* value it returned; waited tells whether it was suspended on the way.
FlushIdle == [state |-> "idle", waited |-> FALSE, errors |-> <<>>]

FlushSuspended == [state |-> "suspended", waited |-> TRUE, errors |-> <<>>]

FlushResolved(waited, value) == [state |-> "resolved", waited |-> waited, errors |-> value]

\* A producer of a test: off when the test has no such producer; ready when
\* its next synchronous run is due (a promise job, or the call that started
\* it); awaiting the start call of unit; flushing while its flush call is
\* suspended; failed when a start call threw; finished at the end of its code.
\* left counts the awaits it has still to reach.
Producer(state, left, unit) == [state |-> state, left |-> left, unit |-> unit]

ProducerOff == Producer("off", 0, 0)

\* Any caller may call at any time: the pool as a library.
AnyCaller == [kind |-> "callers", eager |-> FALSE]

\* new PromisePool(options): every field as the constructor leaves it.
Constructed(nc, mp) ==
    /\ maxPending = asPositiveInteger(mp, DefaultMaxPending, MinValue)
    /\ numConcurrent = asPositiveInteger(nc, DefaultNumConcurrent, MinValue)
    /\ numActive = 0
    /\ isDone = FALSE
    /\ waitingDone = FALSE
    /\ pending = <<>>
    /\ errors = <<>>
    /\ doneListeners = <<>>
    /\ microtasks = <<>>
    /\ immediates = <<>>
    /\ running = {}
    /\ flushRet = [c \in FlushCalls |-> FlushIdle]
    /\ numFailed = 0
    /\ waitOrder = <<>>
    /\ lastCall = Call("new", 0, "none", "constructed")

Init ==
    /\ \E nc \in NumConcurrentInputs, mp \in MaxPendingInputs : Constructed(nc, mp)
    /\ scenario = AnyCaller
    /\ producers = [p \in Producers |-> ProducerOff]
    /\ ops = <<>>

\* ------------------------------------------------------------- start

\* The check reads the flag flush() sets while it waits, not _isDone.
PoolIsDoneWrongFlag == waitingDone

\* if (this._isDone) throw
PoolIsDone == isDone

\* The check lets one unit more in: > for >=.
AtCapacityStrict == numActive > numConcurrent

\* The check counts the unit about to start as active already.
AtCapacityOffByOne == numActive + 1 >= numConcurrent

\* if (this._numActive >= this._numConcurrent)
AtCapacity == numActive >= numConcurrent

\* The check is off by one: > for >=.
QueueFullOffByOne == Len(pending) > maxPending

\* if (this._pending.length >= this._maxPending) throw
QueueFull == Len(pending) >= maxPending

\* The slot is counted twice.
GrantCountsTwice(u) ==
    /\ numActive' = numActive + 2
    /\ immediates' = Append(immediates, u)

\* The slot is handed out and not counted: ++this._numActive is missing.
GrantNoCount(u) ==
    /\ numActive' = numActive
    /\ immediates' = Append(immediates, u)

\* ++this._numActive; setImmediate(() => fn(...args).then(...))
Grant(u) ==
    /\ numActive' = numActive + 1
    /\ immediates' = Append(immediates, u)

\* start() that pushes the waiter before it looks at the length of the queue:
\* the call that fails with the overflow leaves its waiter behind.
startPushFirst(u, fnType) ==
    /\ (~PoolIsDone /\ fnType = "function" /\ ~(AtCapacity /\ QueueFull)) => u # 0
    /\ IF PoolIsDone
       THEN /\ lastCall' = Call("start", u, fnType, "PoolClosed")
            /\ UNCHANGED <<numActive, pending, immediates, waitOrder>>
       ELSE IF fnType # "function"
       THEN /\ lastCall' = Call("start", u, fnType, "InvalidTask")
            /\ UNCHANGED <<numActive, pending, immediates, waitOrder>>
       ELSE IF AtCapacity
       THEN IF QueueFull
            THEN /\ pending' = Append(pending, u)
                 /\ lastCall' = Call("start", u, fnType, "QueueOverflow")
                 /\ UNCHANGED <<numActive, immediates, waitOrder>>
            ELSE /\ pending' = Append(pending, u)
                 /\ waitOrder' = Append(waitOrder, u)
                 /\ lastCall' = Call("start", u, fnType, "queued")
                 /\ UNCHANGED <<numActive, immediates>>
       ELSE /\ Grant(u)
            /\ lastCall' = Call("start", u, fnType, "granted")
            /\ UNCHANGED <<pending, waitOrder>>
    /\ UNCHANGED <<numConcurrent, maxPending, isDone, waitingDone, errors,
                   doneListeners, microtasks, running, flushRet, numFailed>>

\* The synchronous part of start(fn): up to a throw, to the first await, or to
\* the end of the function.
start(u, fnType) ==
    /\ (~PoolIsDone /\ fnType = "function" /\ ~(AtCapacity /\ QueueFull)) => u # 0
    /\ IF PoolIsDone
       THEN /\ lastCall' = Call("start", u, fnType, "PoolClosed")
            /\ UNCHANGED <<numActive, pending, immediates, waitOrder>>
       ELSE IF fnType # "function"
       THEN /\ lastCall' = Call("start", u, fnType, "InvalidTask")
            /\ UNCHANGED <<numActive, pending, immediates, waitOrder>>
       ELSE IF AtCapacity
       THEN IF QueueFull
            THEN /\ lastCall' = Call("start", u, fnType, "QueueOverflow")
                 /\ UNCHANGED <<numActive, pending, immediates, waitOrder>>
            ELSE /\ pending' = Append(pending, u)
                 /\ waitOrder' = Append(waitOrder, u)
                 /\ lastCall' = Call("start", u, fnType, "queued")
                 /\ UNCHANGED <<numActive, immediates>>
       ELSE /\ Grant(u)
            /\ lastCall' = Call("start", u, fnType, "granted")
            /\ UNCHANGED <<pending, waitOrder>>
    /\ UNCHANGED <<numConcurrent, maxPending, isDone, waitingDone, errors,
                   doneListeners, microtasks, running, flushRet, numFailed>>

\* The continuation of `await task` that counts the slot and never sets the
\* call of fn: the unit of a call that waited is skipped.
resumeStartSkips ==
    /\ microtasks # <<>>
    /\ Head(microtasks).kind = "start"
    /\ numActive' = numActive + 1
    /\ immediates' = immediates
    /\ microtasks' = Tail(microtasks)
    /\ waitOrder' = SelectSeq(waitOrder, LAMBDA w : w # Head(microtasks).id)
    /\ lastCall' = Call("resumeStart", Head(microtasks).id, "function", "granted")
    /\ UNCHANGED <<numConcurrent, maxPending, isDone, waitingDone, pending, errors,
                   doneListeners, running, flushRet, numFailed>>

\* The continuation of `await task` in start(): the released waiter takes its slot.
resumeStart ==
    /\ microtasks # <<>>
    /\ Head(microtasks).kind = "start"
    /\ Grant(Head(microtasks).id)
    /\ microtasks' = Tail(microtasks)
    /\ waitOrder' = SelectSeq(waitOrder, LAMBDA w : w # Head(microtasks).id)
    /\ lastCall' = Call("resumeStart", Head(microtasks).id, "function", "granted")
    /\ UNCHANGED <<numConcurrent, maxPending, isDone, waitingDone, pending, errors,
                   doneListeners, running, flushRet, numFailed>>

\* setImmediate callbacks that run newest first.
runImmediateNewest ==
    /\ microtasks = <<>>
    /\ immediates # <<>>
    /\ running' = running \cup {immediates[Len(immediates)]}
    /\ immediates' = SubSeq(immediates, 1, Len(immediates) - 1)
    /\ lastCall' = Call("runImmediate", immediates[Len(immediates)], "function", "invoked")
    /\ UNCHANGED <<numConcurrent, maxPending, numActive, isDone, waitingDone, pending,
                   errors, doneListeners, microtasks, flushRet, numFailed, waitOrder>>

\* The setImmediate callback of start(): fn(...args) is called.  It runs when no
\* promise job is left, and the callbacks run in the order they were set.
runImmediate ==
    /\ microtasks = <<>>
    /\ immediates # <<>>
    /\ running' = running \cup {Head(immediates)}
    /\ immediates' = Tail(immediates)
    /\ lastCall' = Call("runImmediate", Head(immediates), "function", "invoked")
    /\ UNCHANGED <<numConcurrent, maxPending, numActive, isDone, waitingDone, pending,
                   errors, doneListeners, microtasks, flushRet, numFailed, waitOrder>>

\* ------------------------------------------------------------- _onJoin

\* pop() for shift(): the newest waiter is taken.
ShiftLast(queue) ==
    [taken |-> queue[Len(queue)], rest |-> SubSeq(queue, 1, Len(queue) - 1)]

\* The oldest waiter is read and left in the queue: [0] for shift().
ShiftPeek(queue) == [taken |-> Head(queue), rest |-> queue]

\* const taskDone = this._pending.shift()
Shift(queue) == [taken |-> Head(queue), rest |-> Tail(queue)]

\* if (err) this._errors.push(err)
PushError(err) == IF Truthy(err) THEN Append(errors, err) ELSE errors

\* emit('done') that reaches the first listener only.
EmitDoneFirst == <<FlushJob(doneListeners[1])>>

\* this.emit('done'): every listener resolves its deferred, in the order of
\* registration, and each flush call resumes in a promise job of its own.
EmitDone == [i \in 1..Len(doneListeners) |-> FlushJob(doneListeners[i])]

\* _onJoin that returns right after recording a failure: the slot of a unit
\* that failed is not freed and nobody is released.
onJoinFailFast(u, err) ==
    /\ errors' = PushError(err)
    /\ IF Truthy(err)
       THEN /\ lastCall' = JoinCall(u, err, "joined")
            /\ UNCHANGED <<numActive, isDone, waitingDone, pending, microtasks,
                           doneListeners>>
       ELSE /\ numActive' = numActive - 1
            /\ IF pending # <<>>
               THEN /\ pending' = Shift(pending).rest
                    /\ microtasks' = Append(microtasks, StartJob(Shift(pending).taken))
                    /\ lastCall' = JoinCall(u, err, "released")
                    /\ UNCHANGED <<isDone, waitingDone, doneListeners>>
               ELSE IF numActive' = 0 /\ waitingDone
               THEN /\ isDone' = TRUE
                    /\ waitingDone' = FALSE
                    /\ microtasks' = microtasks \o EmitDone
                    /\ doneListeners' = <<>>
                    /\ lastCall' = JoinCall(u, err, "done")
                    /\ UNCHANGED pending
               ELSE /\ lastCall' = JoinCall(u, err, "joined")
                    /\ UNCHANGED <<isDone, waitingDone, pending, microtasks,
                                   doneListeners>>

\* _onJoin that ends the drain without `this._isDone = true`: the pool is open
\* again after its last unit.
onJoinReopens(u, err) ==
    /\ errors' = PushError(err)
    /\ numActive' = numActive - 1
    /\ IF pending # <<>>
       THEN /\ pending' = Shift(pending).rest
            /\ microtasks' = Append(microtasks, StartJob(Shift(pending).taken))
            /\ lastCall' = JoinCall(u, err, "released")
            /\ UNCHANGED <<isDone, waitingDone, doneListeners>>
       ELSE IF numActive' = 0 /\ waitingDone
       THEN /\ isDone' = isDone
            /\ waitingDone' = FALSE
            /\ microtasks' = microtasks \o EmitDone
            /\ doneListeners' = <<>>
            /\ lastCall' = JoinCall(u, err, "done")
            /\ UNCHANGED pending
       ELSE /\ lastCall' = JoinCall(u, err, "joined")
            /\ UNCHANGED <<isDone, waitingDone, pending, microtasks, doneListeners>>

\* _onJoin(err), called when the promise of unit u settles: with null when it
\* fulfils, with the reason when it rejects.
onJoin(u, err) ==
    /\ errors' = PushError(err)
    /\ numActive' = numActive - 1
    /\ IF pending # <<>>
       THEN /\ pending' = Shift(pending).rest
            /\ microtasks' = Append(microtasks, StartJob(Shift(pending).taken))
            /\ lastCall' = JoinCall(u, err, "released")
            /\ UNCHANGED <<isDone, waitingDone, doneListeners>>
       ELSE IF numActive' = 0 /\ waitingDone
       THEN /\ isDone' = TRUE
            /\ waitingDone' = FALSE
            /\ microtasks' = microtasks \o EmitDone
            /\ doneListeners' = <<>>
            /\ lastCall' = JoinCall(u, err, "done")
            /\ UNCHANGED pending
       ELSE /\ lastCall' = JoinCall(u, err, "joined")
            /\ UNCHANGED <<isDone, waitingDone, pending, microtasks, doneListeners>>

\* fn(...args).then(() => this._onJoin(null), (err) => this._onJoin(err)):
\* the promise of unit u fulfils, or rejects with a reason.
settle(u, settlement) ==
    /\ u \in running
    /\ settlement = Fulfilled \/ numFailed < MaxFailures
    /\ running' = running \ {u}
    /\ numFailed' = IF settlement = Fulfilled THEN numFailed ELSE numFailed + 1
    /\ onJoin(u, IF settlement = Fulfilled THEN "null" ELSE settlement)
    /\ UNCHANGED <<numConcurrent, maxPending, immediates, flushRet, waitOrder>>

\* --------------------------------------------------------------- flush

\* flush() without its first branch: a pool with nothing active is not closed
\* at once, the call waits for a 'done' that no unit is left to emit.
flushAlwaysWaits(c) ==
    /\ flushRet[c].state = "idle"
    /\ \A d \in FlushCalls : d < c => flushRet[d].state # "idle"
    /\ IF ~isDone
       THEN /\ waitingDone' = TRUE
            /\ doneListeners' = Append(doneListeners, c)
            /\ flushRet' = [flushRet EXCEPT ![c] = FlushSuspended]
            /\ lastCall' = Call("flush", c, "none", "suspended")
            /\ UNCHANGED isDone
       ELSE /\ flushRet' = [flushRet EXCEPT ![c] = FlushResolved(FALSE, errors)]
            /\ lastCall' = Call("flush", c, "none", "resolved")
            /\ UNCHANGED <<isDone, waitingDone, doneListeners>>
    /\ UNCHANGED <<numConcurrent, maxPending, numActive, pending, errors, microtasks,
                   immediates, running, numFailed, waitOrder>>

\* The synchronous part of flush(): up to `await done` or to the return.
flush(c) ==
    /\ flushRet[c].state = "idle"
    /\ \A d \in FlushCalls : d < c => flushRet[d].state # "idle"
    /\ IF numActive = 0
       THEN /\ isDone' = TRUE
            /\ flushRet' = [flushRet EXCEPT ![c] = FlushResolved(FALSE, errors)]
            /\ lastCall' = Call("flush", c, "none", "resolved")
            /\ UNCHANGED <<waitingDone, doneListeners>>
       ELSE IF ~isDone
       THEN /\ waitingDone' = TRUE
            /\ doneListeners' = Append(doneListeners, c)
            /\ flushRet' = [flushRet EXCEPT ![c] = FlushSuspended]
            /\ lastCall' = Call("flush", c, "none", "suspended")
            /\ UNCHANGED isDone
       ELSE /\ flushRet' = [flushRet EXCEPT ![c] = FlushResolved(FALSE, errors)]
            /\ lastCall' = Call("flush", c, "none", "resolved")
            /\ UNCHANGED <<isDone, waitingDone, doneListeners>>
    /\ UNCHANGED <<numConcurrent, maxPending, numActive, pending, errors, microtasks,
                   immediates, running, numFailed, waitOrder>>

\* The continuation of `await done` in flush(): return this._errors.
resumeFlush ==
    /\ microtasks # <<>>
    /\ Head(microtasks).kind = "flush"
    /\ flushRet' = [flushRet EXCEPT ![Head(microtasks).id] = FlushResolved(TRUE, errors)]
    /\ microtasks' = Tail(microtasks)
    /\ lastCall' = Call("resumeFlush", Head(microtasks).id, "none", "resolved")
    /\ UNCHANGED <<numConcurrent, maxPending, numActive, isDone, waitingDone, pending,
                   errors, doneListeners, immediates, running, numFailed, waitOrder>>

\* ------------------------------------------------------- specification

\* The pool as a library: anyone calls start() and flush() at any time, with
\* anything, and the units settle when and how they like.
callStart(fnType) == start(NextUnit, fnType) /\ UNCHANGED callerVars

callFlush(c) == flush(c) /\ UNCHANGED callerVars

startResumes == resumeStart /\ UNCHANGED callerVars

flushResumes == resumeFlush /\ UNCHANGED callerVars

immediateRuns == runImmediate /\ UNCHANGED callerVars

unitSettles(u, settlement) == settle(u, settlement) /\ UNCHANGED callerVars

Next ==
    \/ \E fnType \in FnTypes : callStart(fnType)
    \/ startResumes
    \/ immediateRuns
    \/ \E u \in Units, settlement \in Settlements : unitSettles(u, settlement)
    \/ \E c \in FlushCalls : callFlush(c)
    \/ flushResumes

Spec == Init /\ [][Next]_vars

\* The event loop runs every promise job and every setImmediate callback, and
\* every unit that was called settles.  Callers are free to call or not.
Fairness ==
    /\ WF_vars(startResumes)
    /\ WF_vars(flushResumes)
    /\ WF_vars(immediateRuns)
    /\ \A u \in Units : WF_vars(\E settlement \in Settlements : unitSettles(u, settlement))

LiveSpec == Spec /\ Fairness

TypeOK ==
    /\ numConcurrent \in 1..2
    /\ maxPending \in 1..2
    /\ numActive \in 0..MaxUnits
    /\ isDone \in BOOLEAN
    /\ waitingDone \in BOOLEAN
    /\ numFailed \in 0..MaxFailures
    /\ Len(errors) <= MaxFailures
    /\ running \subseteq Units

\* ------------------------------------------- the test suite as caller

\* The callers of three tests of src/test/index.js.  In "loop" each producer
\* runs `for (const item of array) await pool.start(async () => {}, item)`;
\* eager producers call again in the promise job in which their await
\* resumes, as the tests' do, the others whenever they like.  In "burst" one
\* producer makes its start calls back to back and awaits none.  In "script"
\* one producer runs the test of capacity 1 that pushes the markers.  A loop
\* is run by up to maxPending producers that call when they like ('should
\* allow more than one pending start'), or by one more and eager ('should
\* restrict excessive pending usage').
Loop(eager) == [kind |-> "loop", eager |-> eager]

Burst == [kind |-> "burst", eager |-> TRUE]

Script == [kind |-> "script", eager |-> TRUE]

\* 'should work with a cursor': one producer takes the values of an array one
\* by one and awaits the start call of each; the body of a unit compares the
\* value it was submitted with to array[hits++].  The array is as long as
\* there are identities, and ops holds the values in the order the bodies
\* saw them, so hits is its length.
CursorLoop == [kind |-> "cursor", eager |-> FALSE]

\* value = await cursor.next(): the value the producer submits when it has
\* left start calls to make.
CursorValue(left) == MaxTestUnits - left + 1

\* The identity the next start call of a test gets; 0 when all are in use.
NextTestUnit == IF TestUnits \ InPool = {} THEN 0 ELSE Min(TestUnits \ InPool)

TestInit ==
    \/ /\ \E nc \in NumConcurrentInputs, mp \in MaxPendingInputs : Constructed(nc, mp)
       /\ \E n \in Producers :
             /\ n <= maxPending + 1
             /\ scenario = Loop(n > maxPending)
             /\ producers = [p \in Producers |->
                               IF p <= n THEN Producer("ready", UnitsPerProducer, 0)
                               ELSE ProducerOff]
       /\ ops = <<>>
    \/ /\ \E nc \in NumConcurrentInputs, mp \in MaxPendingInputs : Constructed(nc, mp)
       /\ scenario = Burst
       /\ producers = [p \in Producers |->
                         IF p = 1 THEN Producer("ready", UnitsPerProducer, 0)
                         ELSE ProducerOff]
       /\ ops = <<>>
    \/ /\ \E nc \in NumConcurrentInputs, mp \in MaxPendingInputs : Constructed(nc, mp)
       /\ scenario = CursorLoop
       /\ producers = [p \in Producers |->
                         IF p = 1 THEN Producer("ready", MaxTestUnits, 0)
                         ELSE ProducerOff]
       /\ ops = <<>>
    \/ /\ Constructed(Num(1), Undefined)
       /\ scenario = Script
       /\ producers = [p \in Producers |->
                         IF p = 1 THEN Producer("ready", ScriptAwaits, 0) ELSE ProducerOff]
       /\ ops = <<>>

\* fn is called ahead of the promise jobs of the callers, as if start() handed
\* it to process.nextTick and not to setImmediate.
CallersNeverDue == FALSE

\* A producer has a synchronous run due that comes before the next
\* setImmediate callback: start() hands fn to setImmediate, and the await of
\* a caller resumes in a promise job, which Node runs first.
CallersDue == scenario.eager /\ \E p \in Producers : producers[p].state = "ready"

\* The producer whose await has resolved: its code goes on, or is at its end.
Resumed(left) ==
    IF left = 0 /\ scenario.kind # "script"
    THEN Producer("finished", 0, 0)
    ELSE Producer("ready", left, 0)

\* Where a producer stands after its call of start() returned or threw.
AfterStart(left, call) ==
    IF scenario.kind = "burst" THEN Resumed(left - 1)
    ELSE IF call.outcome = "granted" THEN Resumed(left - 1)
    ELSE IF call.outcome = "queued" THEN Producer("awaiting", left - 1, call.id)
    ELSE Producer("failed", left - 1, 0)

\* The producer that awaits the start call of unit u resumes.
WakeStart(u) ==
    [p \in Producers |->
        IF producers[p].state = "awaiting" /\ producers[p].unit = u
        THEN Resumed(producers[p].left)
        ELSE producers[p]]

\* The producer that awaits its flush call resumes.
WakeFlush ==
    [p \in Producers |->
        IF producers[p].state = "flushing" THEN Resumed(producers[p].left)
        ELSE producers[p]]

\* ops.push(1) / ops.push(4) as the body of the script's first / second unit
\* begins, ops.push(2) / ops.push(5) as it ends.
BeginMarker(u) == 3 * u - 2

EndMarker(u) == 3 * u - 1

\* ops.push(0), ops.push(3), ops.push(6): pushed by the script when its first,
\* second and third await have resumed.
ScriptMarker(left) == 3 * (ScriptAwaits - left - 1)

\* await pool.start(async () => {}, item) of a loop, pool.start(async () => {})
\* of the burst.
produce(p) ==
    /\ scenario.kind \in {"loop", "burst"}
    /\ producers[p].state = "ready"
    /\ start(NextTestUnit, "function")
    /\ producers' = [producers EXCEPT ![p] = AfterStart(producers[p].left, lastCall')]
    /\ UNCHANGED <<scenario, ops>>

\* await pool.start(async () => { expect(value).toBe(array[hits++]); ... })
\* of the cursor's loop: the unit is known by the value it closes over.
cursorStart(p) ==
    /\ scenario.kind = "cursor"
    /\ producers[p].state = "ready"
    /\ start(CursorValue(producers[p].left), "function")
    /\ producers' = [producers EXCEPT ![p] = AfterStart(producers[p].left, lastCall')]
    /\ UNCHANGED <<scenario, ops>>

\* The script's `await pool.start(async () => {...})`, after the ops.push
\* that stands before it.
scriptStart(p) ==
    /\ scenario.kind = "script"
    /\ producers[p].state = "ready"
    /\ producers[p].left > 1
    /\ start(NextTestUnit, "function")
    /\ producers' = [producers EXCEPT ![p] = AfterStart(producers[p].left, lastCall')]
    /\ ops' = IF producers[p].left = ScriptAwaits THEN ops
              ELSE Append(ops, ScriptMarker(producers[p].left))
    /\ UNCHANGED scenario

\* ops.push(3); expect(await pool.flush()).toEqual([])
scriptFlush(p) ==
    /\ scenario.kind = "script"
    /\ producers[p].state = "ready"
    /\ producers[p].left = 1
    /\ flush(1)
    /\ producers' = [producers EXCEPT ![p] =
                        IF lastCall'.outcome = "suspended" THEN Producer("flushing", 0, 0)
                        ELSE Resumed(0)]
    /\ ops' = Append(ops, ScriptMarker(1))
    /\ UNCHANGED scenario

\* ops.push(6); expect(ops).toEqual([0, 1, 2, 3, 4, 5, 6])
scriptEnd(p) ==
    /\ scenario.kind = "script"
    /\ producers[p].state = "ready"
    /\ producers[p].left = 0
    /\ producers' = [producers EXCEPT ![p] = Producer("finished", 0, 0)]
    /\ ops' = Append(ops, ScriptMarker(0))
    /\ lastCall' = Call("script", p, "none", "finished")
    /\ UNCHANGED <<numConcurrent, maxPending, numActive, isDone, waitingDone, pending,
                   errors, doneListeners, microtasks, immediates, running, flushRet,
                   numFailed, waitOrder, scenario>>

\* A released start call resumes and returns: its producer's await resolves.
producerResumes ==
    /\ resumeStart
    /\ producers' = WakeStart(Head(microtasks).id)
    /\ UNCHANGED <<scenario, ops>>

\* The suspended flush call resumes and returns.
scriptResumes ==
    /\ resumeFlush
    /\ producers' = WakeFlush
    /\ UNCHANGED <<scenario, ops>>

\* The setImmediate callback of start() calls fn: the body of the unit begins.
bodyBegins ==
    /\ ~CallersDue
    /\ runImmediate
    /\ ops' = IF scenario.kind = "script" THEN Append(ops, BeginMarker(Head(immediates)))
              ELSE IF scenario.kind = "cursor" THEN Append(ops, Head(immediates))
              ELSE ops
    /\ UNCHANGED <<scenario, producers>>

\* The unit settles.  `async () => {}` fulfils; when it does is left open.  A
\* unit of the script fulfils after `await immediately()`: in a later
\* setImmediate callback, so after every promise job.
bodyEnds(u) ==
    /\ scenario.kind = "script" => (microtasks = <<>> /\ ~CallersDue)
    /\ settle(u, Fulfilled)
    /\ ops' = IF scenario.kind = "script" THEN Append(ops, EndMarker(u)) ELSE ops
    /\ UNCHANGED <<scenario, producers>>

TestNext ==
    \/ \E p \in Producers : produce(p)
    \/ \E p \in Producers : cursorStart(p)
    \/ \E p \in Producers : scriptStart(p)
    \/ \E p \in Producers : scriptFlush(p)
    \/ \E p \in Producers : scriptEnd(p)
    \/ producerResumes
    \/ scriptResumes
    \/ bodyBegins
    \/ \E u \in TestUnits : bodyEnds(u)

TestSpec == TestInit /\ [][TestNext]_vars

\* -------------------------------------------------------- the constructor

\* Identities for the start calls made on a pool after its construction.
MaxCtorUnits == 2

CtorUnits == 1..MaxCtorUnits

\* The values an option is given: missing, not a number, and numbers that are
\* negative, zero, fractional, small, 2^31 and more, NaN and Infinity.
OptionInputs ==
    {Undefined, Str, Num(-3), Num(0), Frac(2, 5), Frac(-1, 2), Num(1), Num(2),
     Frac(7, 2), Large(32768), Large(65538), NaN, PosInfinity}

NumberInputs == {v \in OptionInputs : v.type = "number"}

\* The argument of new PromisePool(...): nothing, a bare number, or an object.
NoOptions ==
    [form |-> "undefined", value |-> Undefined,
     numConcurrent |-> Undefined, maxPending |-> Undefined]

BareNumber(v) ==
    [form |-> "number", value |-> v,
     numConcurrent |-> Undefined, maxPending |-> Undefined]

Options(nc, mp) ==
    [form |-> "object", value |-> Undefined,
     numConcurrent |-> nc, maxPending |-> mp]

ArgumentInputs ==
    {NoOptions}
        \cup {BareNumber(v) : v \in NumberInputs}
        \cup {Options(nc, Undefined) : nc \in OptionInputs}
        \cup {Options(Undefined, mp) : mp \in OptionInputs}
        \cup {Options(Num(2), Num(2)), Options(NaN, NaN), Options(Str, Num(0))}

\* !options: undefined is falsy, and so are the numbers 0 and NaN.
Falsy(arg) ==
    \/ arg.form = "undefined"
    \/ arg.form = "number" /\ arg.value \in {Num(0), NaN}

\* The options object after `if (!options)` and `if (typeof options ===
\* 'number')`.
Normalised(arg) ==
    IF Falsy(arg) THEN Options(Undefined, Undefined)
    ELSE IF arg.form = "number" THEN Options(arg.value, Undefined)
    ELSE arg

\* A construction is the caller: which argument it passes.
Construction(arg) == [kind |-> "new", eager |-> FALSE, options |-> arg]

\* The fields before the constructor has run: nothing is assigned yet.
Declared ==
    /\ maxPending = 0
    /\ numConcurrent = 0
    /\ numActive = 0
    /\ isDone = FALSE
    /\ waitingDone = FALSE
    /\ pending = <<>>
    /\ errors = <<>>
    /\ doneListeners = <<>>
    /\ microtasks = <<>>
    /\ immediates = <<>>
    /\ running = {}
    /\ flushRet = [c \in FlushCalls |-> FlushIdle]
    /\ numFailed = 0
    /\ waitOrder = <<>>
    /\ lastCall = Call("declare", 0, "none", "declared")

Built == lastCall.op # "declare"

CtorInit ==
    /\ Declared
    /\ \E arg \in ArgumentInputs : scenario = Construction(arg)
    /\ producers = [p \in Producers |-> ProducerOff]
    /\ ops = <<>>

\* new PromisePool(options)
construct ==
    /\ ~Built
    /\ LET options == Normalised(scenario.options)
       IN  /\ maxPending' = asPositiveInteger(options.maxPending, DefaultMaxPending, MinValue)
           /\ numConcurrent' = asPositiveInteger(options.numConcurrent, DefaultNumConcurrent, MinValue)
    /\ numActive' = 0
    /\ isDone' = FALSE
    /\ waitingDone' = FALSE
    /\ pending' = <<>>
    /\ errors' = <<>>
    /\ lastCall' = Call("new", 0, "none", "constructed")
    /\ UNCHANGED <<doneListeners, microtasks, immediates, running, flushRet,
                   numFailed, waitOrder>>
    /\ UNCHANGED callerVars

CtorIdle == CtorUnits \ InPool

NextCtorUnit == IF CtorIdle = {} THEN 0 ELSE Min(CtorIdle)

\* A call of start() on the constructed pool.
ctorStart(fnType) == Built /\ start(NextCtorUnit, fnType) /\ UNCHANGED callerVars

ctorFlush(c) == Built /\ callFlush(c)

ctorStartResumes == Built /\ startResumes

ctorFlushResumes == Built /\ flushResumes

ctorImmediateRuns == Built /\ immediateRuns

ctorUnitSettles(u, settlement) == Built /\ unitSettles(u, settlement)

CtorNext ==
    \/ construct
    \/ \E fnType \in FnTypes : ctorStart(fnType)
    \/ \E c \in FlushCalls : ctorFlush(c)
    \/ ctorStartResumes
    \/ ctorFlushResumes
    \/ ctorImmediateRuns
    \/ \E u \in CtorUnits, settlement \in {Fulfilled, "ErrA"} : ctorUnitSettles(u, settlement)

CtorSpec == CtorInit /\ [][CtorNext]_vars

\* ---------------------------------------------------------------- claims

\* What the pool's state says of a start call or unit u.
Queued(u) == u \in SeqToSet(pending)

\* A start call still waiting for its slot: suspended in _pending, or released
\* by _onJoin and not yet resumed.
Waiting(u) == Queued(u) \/ u \in Released

\* C1: in every reachable state the number of units that hold a slot and have
\* not settled is between 0 and the capacity.
C1_ActiveWithinCapacity == 0 <= numActive /\ numActive <= numConcurrent

\* A step that is a call of start() (any other step records another op).
StartStep == lastCall'.op = "start"

\* A flush call has returned to its caller.
SomeFlushResolved == \E c \in FlushCalls : flushRet[c].state = "resolved"

\* flush() has been called.
SomeFlushCalled == \E c \in FlushCalls : flushRet[c].state # "idle"

\* The step just taken resolved a flush call: flush() returned without
\* suspending, or a suspended call resumed and returned.
FlushJustResolved == lastCall.op \in {"flush", "resumeFlush"} /\ lastCall.outcome = "resolved"

\* C2, as stated: _pending never holds more than maxPending start calls, and a
\* start call made while the pool is at capacity and the queue is full fails
\* with QueueOverflow and is not queued.
C2_QueueBoundedAnyCall ==
    /\ [](Len(pending) <= maxPending)
    /\ [][(StartStep /\ AtCapacity /\ QueueFull)
            => (lastCall'.outcome = "QueueOverflow" /\ pending' = pending)]_vars

\* C2, amended: _pending never holds more than maxPending start calls, and a
\* start call with a callable unit made while the pool is at capacity and the
\* queue is full fails with QueueOverflow and is not queued.
C2_QueueBounded ==
    /\ [](Len(pending) <= maxPending)
    /\ [][(StartStep /\ lastCall'.fn = "function" /\ AtCapacity /\ QueueFull)
            => (lastCall'.outcome = "QueueOverflow" /\ pending' = pending)]_vars

\* A start call with a callable unit has just failed with QueueOverflow on a
\* pool at capacity whose queue holds maxPending start calls.
C2_Witness ==
    /\ lastCall.op = "start"
    /\ lastCall.fn = "function"
    /\ lastCall.outcome = "QueueOverflow"
    /\ Len(pending) = maxPending
    /\ numActive >= numConcurrent

\* C3: when a flush call resolves, no unit is running, scheduled, queued or
\* awaiting resumption, and the pool is closed.
C3_FlushResolvesDrained == FlushJustResolved => (InPool = {} /\ numActive = 0 /\ isDone)

\* C4: once flush() has been called, a start call admits no work: it is neither
\* granted a slot nor queued.
C4_NoStartAfterFlushCalled ==
    [][(StartStep /\ SomeFlushCalled) => lastCall'.outcome \notin {"granted", "queued"}]_vars

\* C5: after a flush call has resolved, every start call fails with PoolClosed,
\* whatever it is handed, and admits nothing.
C5_StartAfterFlushResolved ==
    [][(StartStep /\ SomeFlushResolved)
         => (lastCall'.outcome = "PoolClosed"
             /\ UNCHANGED <<numActive, pending, immediates, microtasks>>)]_vars

\* A start call with a callable unit has just failed with PoolClosed after one
\* flush call resolved without suspending and another after the drain.
C5_Witness ==
    /\ lastCall.op = "start"
    /\ lastCall.fn = "function"
    /\ lastCall.outcome = "PoolClosed"
    /\ \E c \in FlushCalls : flushRet[c].state = "resolved" /\ flushRet[c].waited
    /\ \E c \in FlushCalls : flushRet[c].state = "resolved" /\ ~flushRet[c].waited

\* w1 was suspended before w2 and both still wait for a slot.
WaitsBefore(w1, w2) ==
    \E i, j \in 1..Len(waitOrder) : i < j /\ waitOrder[i] = w1 /\ waitOrder[j] = w2

\* C6: of two start calls that were both queued, the one queued first is
\* released first and scheduled first.
C6_FifoRelease ==
    /\ [](\A w1, w2 \in Units : (WaitsBefore(w1, w2) /\ ~Queued(w2)) => ~Queued(w1))
    /\ [][lastCall'.op = "resumeStart" => lastCall'.id = Head(waitOrder)]_vars

\* Two start calls were queued, 2 before 3; 2 has been released and scheduled
\* while 3 is still queued.
C6_Witness ==
    /\ lastCall.op = "resumeStart"
    /\ lastCall.id = 2
    /\ waitOrder = <<3>>
    /\ Queued(3)
    /\ 2 \in SeqToSet(immediates)

\* C7: a start call is granted its slot only when no start call that arrived
\* before it is still waiting for one.
C7_NoAdmissionOutOfTurn ==
    [][/\ (StartStep /\ lastCall'.outcome = "granted") => waitOrder = <<>>
       /\ lastCall'.op = "resumeStart" => lastCall'.id = Head(waitOrder)]_vars

\* C8: every flush call that suspends eventually resolves.
C8_FlushEventuallyResolves ==
    \A c \in FlushCalls : (flushRet[c].state = "suspended") ~> (flushRet[c].state = "resolved")

\* C9 (admission): every start call that was queued is eventually released,
\* granted a slot and its unit called.
C9_QueuedEventuallyRuns == \A u \in Units : Queued(u) ~> (u \in running)

\* C9: every queued start call eventually runs, and the start calls waiting when
\* flush() is called have run before the pool is closed.
C9_WaitersRunBeforeClosed ==
    /\ C9_QueuedEventuallyRuns
    /\ [][(lastCall'.op = "flush" /\ isDone') => \A u \in Units : ~Waiting(u)]_vars

\* C10: errors holds one entry per unit that settled with failure.
C10_OneErrorPerFailure == Len(errors) = numFailed

\* s is an initial part of t.
IsPrefix(s, t) == Len(s) <= Len(t) /\ SubSeq(t, 1, Len(s)) = s

\* A step in which a unit settles with failure: _onJoin runs for a rejection.
FailureStep == lastCall'.op = "onJoin" /\ numFailed' = numFailed + 1

\* C11 (append-only): errors only grows at its end; no step, flush included,
\* resets or reorders it.
C11_AppendOnly == [][IsPrefix(errors, errors')]_vars

\* C11: errors is in the order in which the units failed, whatever the order
\* of their admission: when the error of a unit that fails enters errors, the
\* error of every unit that failed before it is there already and the new one
\* is placed after them; and errors only grows at its end.
C11_ErrorsInSettlementOrder ==
    /\ [][(FailureStep /\ Truthy(lastCall'.err)) =>
            /\ Len(errors) = numFailed
            /\ errors' = Append(errors, lastCall'.err)]_vars
    /\ C11_AppendOnly

\* A step in which a unit settles, with success or with failure.
JoinStep == lastCall'.op = "onJoin"

\* The flush calls suspended on 'done' are all resumed, each in a job of its own.
DrainCompleted ==
    /\ isDone' /\ ~waitingDone' /\ doneListeners' = <<>>
    /\ microtasks' = microtasks \o [i \in 1..Len(doneListeners) |-> FlushJob(doneListeners[i])]

\* C12: a unit that settles was admitted by a start call that has resolved, and
\* its settling, with failure exactly as with success, frees its slot, releases
\* the oldest waiter if there is one, completes a drain that waits for it, and
\* touches no other unit, no lifecycle flag else and no value flush returned;
\* only errors can tell a failure from a success.
C12_FailureOnlyRecorded ==
    [][JoinStep =>
        /\ lastCall'.id \in running /\ ~Waiting(lastCall'.id)
        /\ numActive' = numActive - 1
        /\ running' = running \ {lastCall'.id}
        /\ immediates' = immediates /\ flushRet' = flushRet
        /\ IF pending # <<>>
           THEN /\ pending' = Tail(pending)
                /\ microtasks' = Append(microtasks, StartJob(Head(pending)))
                /\ UNCHANGED <<isDone, waitingDone, doneListeners>>
           ELSE IF numActive' = 0 /\ waitingDone
           THEN DrainCompleted
           ELSE UNCHANGED <<isDone, waitingDone, doneListeners, microtasks>>
        /\ ~FailureStep => errors' = errors]_vars

\* C12 witness: a unit that failed has released the oldest of two waiters.
C12_Witness ==
    /\ lastCall.op = "onJoin" /\ lastCall.err = "ErrA" /\ lastCall.outcome = "released"
    /\ errors = <<"ErrA">>
    /\ Len(pending) = 1 /\ Released # {}

\* C12 (drain): a unit that failed has completed a drain, and the flush call
\* that waited for it resumes.
C12_FailureCompletesDrain ==
    /\ lastCall.op = "onJoin" /\ lastCall.err = "ErrB" /\ lastCall.outcome = "done"
    /\ isDone /\ numActive = 0
    /\ \E c \in FlushCalls : FlushJob(c) \in SeqToSet(microtasks)

\* The outcomes of a start call that throws.
StartErrors == {"PoolClosed", "InvalidTask", "QueueOverflow"}

\* C13: a start call that fails with PoolClosed, InvalidTask or QueueOverflow
\* changes nothing of the pool (active count, waiters, errors, lifecycle flags,
\* listeners) and schedules nothing: no waiter is queued or released for it and
\* no callback is set, so its unit is never called.
C13_FailedStartChangesNothing ==
    [][(StartStep /\ lastCall'.outcome \in StartErrors) =>
        UNCHANGED <<numConcurrent, maxPending, numActive, isDone, waitingDone, pending,
                    errors, doneListeners, microtasks, immediates, running,
                    flushRet>>]_vars

\* C13 witness: a start call has failed with QueueOverflow on a pool with
\* active units and a waiter.
C13_Witness ==
    /\ lastCall.op = "start" /\ lastCall.outcome = "QueueOverflow"
    /\ numActive > 0 /\ pending # <<>>

\* C13 (the other two errors): a start call has failed with InvalidTask on a
\* busy pool, and one that passed a function with PoolClosed.
C13_InvalidTaskReached ==
    lastCall.op = "start" /\ lastCall.outcome = "InvalidTask" /\ pending # <<>>

C13_PoolClosedReached ==
    lastCall.op = "start" /\ lastCall.outcome = "PoolClosed" /\ lastCall.fn = "function"

\* Flush calls suspended at `await done`: their listener waits for 'done', or
\* 'done' was emitted and their continuation is a promise job.
Listening(c) == c \in SeqToSet(doneListeners)

Resuming(c) == FlushJob(c) \in SeqToSet(microtasks)

\* The flush call c suspended and has returned.
ResolvedAfterWaiting(c) == flushRet[c].state = "resolved" /\ flushRet[c].waited

\* C14: flush calls that are suspended at the same time are all resumed by the
\* one step that ends the drain and closes the pool: a suspended call has its
\* listener or its continuation, while one still listens the drain is pending
\* and none has been resumed, a resumed one finds the pool closed, and the
\* calls that waited all return the same errors.
C14_SuspendedFlushesResolveTogether ==
    \A c \in FlushCalls :
        /\ flushRet[c].state = "suspended" => (Listening(c) \/ Resuming(c))
        /\ Listening(c) => flushRet[c].state = "suspended" /\ waitingDone
        /\ Resuming(c) => flushRet[c].state = "suspended" /\ isDone
        /\ \A d \in FlushCalls :
              /\ Listening(c) => ~Resuming(d) /\ ~ResolvedAfterWaiting(d)
              /\ (ResolvedAfterWaiting(c) /\ ResolvedAfterWaiting(d))
                    => flushRet[c].errors = flushRet[d].errors

\* C14 witness: two flush calls were suspended together and both have returned,
\* with the error of a unit that failed during the drain.
C14_Witness ==
    /\ ResolvedAfterWaiting(1) /\ ResolvedAfterWaiting(2)
    /\ flushRet[1].errors = <<"ErrA">> /\ flushRet[2].errors = <<"ErrA">>
    /\ lastCall.op = "resumeFlush" /\ lastCall.id = 2

\* A step in which flush() is called after an earlier flush call has returned.
LaterFlushStep == lastCall'.op = "flush" /\ SomeFlushResolved

\* C15 (no suspension, no effect): a flush call made after an earlier one has
\* returned returns at once and changes nothing of the pool.
C15_LaterFlushChangesNothing ==
    [][LaterFlushStep =>
        /\ lastCall'.outcome = "resolved"
        /\ UNCHANGED <<numConcurrent, maxPending, numActive, isDone, waitingDone, pending,
                       errors, doneListeners, microtasks, immediates, running>>]_vars

\* C15: a flush call made after an earlier flush call has returned returns at
\* once, changes nothing of the pool, and returns the errors every earlier
\* call returned.
C15_FlushIdempotent ==
    /\ C15_LaterFlushChangesNothing
    /\ [][LaterFlushStep =>
            \A d \in FlushCalls :
                flushRet[d].state = "resolved"
                    => flushRet'[lastCall'.id].errors = flushRet[d].errors]_vars

\* A step in which flush() is called on a pool with no active unit and an
\* empty wait queue.
IdleFlushStep == lastCall'.op = "flush" /\ numActive = 0 /\ pending = <<>>

\* C20: a flush call on a pool with no active unit and an empty wait queue
\* does not suspend: the pool is closed in the same step without a drain being
\* started, and the call returns the errors recorded so far, none if no unit
\* ever failed.
C20_IdleFlushClosesAtOnce ==
    [][IdleFlushStep =>
        /\ lastCall'.outcome = "resolved"
        /\ isDone' /\ waitingDone' = waitingDone /\ doneListeners' = doneListeners
        /\ flushRet'[lastCall'.id] = FlushResolved(FALSE, errors)
        /\ numFailed = 0 => flushRet'[lastCall'.id].errors = <<>>]_vars

\* C20 witness: an open pool whose only unit failed and settled was flushed:
\* the call returned that error at once and the pool is closed.
C20_Witness ==
    /\ lastCall.op = "flush" /\ lastCall.id = 1 /\ lastCall.outcome = "resolved"
    /\ numActive = 0 /\ InPool = {} /\ isDone /\ ~waitingDone
    /\ flushRet[1] = FlushResolved(FALSE, <<"ErrA">>)

\* The producers that share the pool in a test.
ActiveProducers == {p \in Producers : producers[p].state # "off"}

\* A start call of a producer threw: its loop is over, Promise.all rejects.
SomeProducerFailed == \E p \in Producers : producers[p].state = "failed"

\* C16: when at most maxPending producers share the pool and each awaits its
\* start call before it calls again, no start call fails with QueueOverflow,
\* however their calls and the settling of the units interleave.
C16_NoOverflowWithinQueueLimit ==
    (scenario.kind = "loop" /\ Cardinality(ActiveProducers) <= maxPending)
        => /\ ~SomeProducerFailed
           /\ ~(lastCall.op = "start" /\ lastCall.outcome = "QueueOverflow")

\* C16 witness: capacity 2, maxPending 2, two producers: both slots are taken,
\* both producers wait in a queue that is full, and nobody is left to call.
C16_Witness ==
    /\ scenario.kind = "loop" /\ numConcurrent = 2 /\ maxPending = 2
    /\ ActiveProducers = {1, 2}
    /\ \A p \in ActiveProducers : producers[p].state = "awaiting"
    /\ Len(pending) = 2 /\ numActive = 2

\* C16 (the test): both producers of 'should allow more than one pending
\* start' have made their five start calls and none failed.
C16_BothProducersFinish ==
    /\ scenario.kind = "loop" /\ numConcurrent = 2 /\ maxPending = 2
    /\ ActiveProducers = {1, 2}
    /\ \A p \in ActiveProducers : producers[p].state = "finished"

\* The start calls producer p has made.
CallsMade(p) ==
    IF producers[p].state = "off" THEN 0 ELSE UnitsPerProducer - producers[p].left

RECURSIVE CallsUpTo(_)
CallsUpTo(n) == IF n = 0 THEN 0 ELSE CallsMade(n) + CallsUpTo(n - 1)

\* The start calls the producers of a test have made so far.
Calls == CallsUpTo(MaxProducers)

\* C17: when one producer more than maxPending shares the pool (capacity 2,
\* maxPending 2, three producers), each awaits every start call and calls
\* again as soon as its await resumes, a start call fails with QueueOverflow:
\* the first numConcurrent + maxPending calls are admitted before any unit
\* runs, and the call after them fails.
C17_OverflowBeyondQueueLimit ==
    (scenario.kind = "loop" /\ scenario.eager)
        => (SomeProducerFailed <=> Calls > numConcurrent + maxPending)

\* C17 witness: in the pool of the test two calls were granted, two producers
\* wait, and the fifth call, of the third producer, has just failed with
\* QueueOverflow before any unit ran.
C17_Witness ==
    /\ scenario = Loop(TRUE) /\ numConcurrent = 2 /\ maxPending = 2
    /\ Cardinality(ActiveProducers) = 3
    /\ lastCall.op = "start" /\ lastCall.outcome = "QueueOverflow"
    /\ Calls = 5 /\ SomeProducerFailed
    /\ Len(immediates) = 2 /\ Len(pending) = 2 /\ running = {}

\* A step in which the producer of the burst calls start().
BurstStep == scenario.kind = "burst" /\ lastCall'.op = "start"

\* C18: of start calls made back to back on a fresh pool, none awaited, the
\* first numConcurrent are granted a slot, the next maxPending are queued, and
\* every call after them fails with QueueOverflow (capacity 2, maxPending 1:
\* the fourth call is the first to fail).
C18_BackToBackStarts ==
    [][BurstStep =>
        lastCall'.outcome =
            IF CallsMade(1) < numConcurrent THEN "granted"
            ELSE IF CallsMade(1) < numConcurrent + maxPending THEN "queued"
            ELSE "QueueOverflow"]_vars

\* C18 witness: in the pool of the test (capacity 2, maxPending 1) the fourth
\* call of the burst has failed with QueueOverflow, after two calls that were
\* granted and one that is queued.
C18_Witness ==
    /\ scenario.kind = "burst" /\ numConcurrent = 2 /\ maxPending = 1
    /\ CallsMade(1) = 4
    /\ lastCall.op = "start" /\ lastCall.outcome = "QueueOverflow"
    /\ numActive = 2 /\ Len(immediates) = 2 /\ Len(pending) = 1

\* expect(ops).toEqual([0, 1, 2, 3, 4, 5, 6])
ExpectedOps == [i \in 1..7 |-> i - 1]

\* A step in which the body of a unit begins.
BodyBeginsStep == lastCall'.op = "runImmediate"

C21_ConstructionMapsOptions ==
    Built =>
        LET arg == scenario.options
            Open(v) == v.kind \in {"NaN", "Infinity"}
            Truncation(v) ==
                IF v.kind = "large" THEN v
                ELSE IF v.num >= 0 THEN Num(v.num \div v.den)
                ELSE Num(-((-v.num) \div v.den))
            Yields(v, default, result) ==
                IF v.type # "number" THEN result = default
                ELSE IF Open(v) THEN TRUE
                ELSE IF LeqZero(v) \/ Truncation(v) = Num(0) THEN result = MinValue
                ELSE Num(result) = Truncation(v)
        IN  IF arg.form = "number"
            THEN (~Open(arg.value) /\ ~LeqZero(arg.value)) =>
                    /\ Yields(arg.value, DefaultNumConcurrent, numConcurrent)
                    /\ maxPending = DefaultMaxPending
            ELSE /\ Yields(arg.numConcurrent, DefaultNumConcurrent, numConcurrent)
                 /\ Yields(arg.maxPending, DefaultMaxPending, maxPending)

\* The same mapping for the configurations whose numbers are below 2^31.
C21_MapsOptionsBelowTwoTo31 ==
    LET arg == scenario.options
    IN  (/\ arg.value.kind # "large"
         /\ arg.numConcurrent.kind # "large"
         /\ arg.maxPending.kind # "large") => C21_ConstructionMapsOptions

\* Neither field is assigned again after the constructor.
C21_NeverReassigned ==
    [][Built => numConcurrent' = numConcurrent /\ maxPending' = maxPending]_vars

\* C29: a pool constructed with numConcurrent NaN has the default capacity 4,
\* and one constructed with maxPending NaN has the default queue limit 1.
C29_NaNYieldsDefault ==
    (Built /\ scenario.options.form = "object") =>
        /\ scenario.options.numConcurrent = NaN => numConcurrent = DefaultNumConcurrent
        /\ scenario.options.maxPending = NaN => maxPending = DefaultMaxPending

\* What the code does with NaN: it returns minValue, for both options.
C29_NaNYieldsMinimum ==
    (Built /\ scenario.options.form = "object") =>
        /\ scenario.options.numConcurrent = NaN => numConcurrent = MinValue
        /\ scenario.options.maxPending = NaN => maxPending = MinValue

\* A bare NaN is falsy and is replaced by {}: the defaults.
C29_BareNaNYieldsDefaults ==
    (Built /\ scenario.options = BareNumber(NaN)) =>
        numConcurrent = DefaultNumConcurrent /\ maxPending = DefaultMaxPending

\* The pool accepts work as the lifecycle has it: no flush was called yet.
PoolOpen == ~isDone /\ ~waitingDone

\* C22: a start call with a callable unit on an Open pool is granted its slot
\* in the call itself exactly when active < capacity; with active == capacity
\* and room in the queue it is suspended in the queue; a suspended call leaves
\* the queue only by the settlement of a running unit, which releases it, and
\* it resumes (and resolves) only after such a release.
C22_SuspensionPoints ==
    [][/\ (StartStep /\ lastCall'.fn = "function" /\ PoolOpen) =>
            /\ lastCall'.outcome = "granted" <=> numActive < numConcurrent
            /\ (numActive = numConcurrent /\ Len(pending) < maxPending) =>
                    /\ lastCall'.outcome = "queued"
                    /\ lastCall'.id \in SeqToSet(pending')
                    /\ lastCall'.id \notin SeqToSet(immediates')
       /\ \A u \in Units :
            /\ (Queued(u) /\ ~Queued(u)') =>
                    /\ lastCall'.op = "onJoin"
                    /\ lastCall'.outcome = "released"
                    /\ lastCall'.id \in running
                    /\ u \in Released'
            /\ (u \in Released' /\ u \notin Released) => Queued(u)
       /\ lastCall'.op = "resumeStart" =>
            /\ lastCall'.id \in Released
            /\ lastCall'.id \in SeqToSet(immediates')
      ]_vars

\* A start call that was suspended on an open pool has resumed after the
\* settlement that released it.
C22_Witness ==
    /\ lastCall.op = "resumeStart"
    /\ PoolOpen
    /\ numFailed = 0
    /\ waitOrder = <<>>

\* C23: when a unit settles with start calls waiting, its slot goes straight to
\* the oldest of them: no start call, flush call or other settlement runs in a
\* state where the counter was lowered for the settled unit and the released
\* call is not counted yet.
C23_SlotTransfersDirectly ==
    [][lastCall'.op \in {"start", "flush", "onJoin"} => Released = {}]_vars

\* The released call is the one that waited longest, and it is the next to be
\* counted.
C23_OldestWaiterReleased ==
    [][(lastCall'.op = "onJoin" /\ lastCall'.outcome = "released") =>
            /\ Head(pending) \in Released'
            /\ pending' = Tail(pending)
            /\ numActive' = numActive - 1]_vars

\* The lifecycle as the two flags have it.
Lifecycle ==
    IF isDone THEN "Closed" ELSE IF waitingDone THEN "Draining" ELSE "Open"

\* C24: the lifecycle only moves forward: a step leaves it as it is or takes
\* it from Open to Draining, from Open to Closed or from Draining to Closed;
\* a Closed pool stays Closed and a Draining pool never is Open again.
C24_LifecycleMonotone ==
    [][\/ Lifecycle' = Lifecycle
       \/ <<Lifecycle, Lifecycle'>> \in {<<"Open", "Draining">>,
                                          <<"Open", "Closed">>,
                                          <<"Draining", "Closed">>}]_vars

\* A pool that drained and closed has since refused a start call and answered
\* another flush call.
C24_Witness ==
    /\ Lifecycle = "Closed"
    /\ flushRet[1].state = "resolved" /\ flushRet[1].waited
    /\ flushRet[2].state = "resolved" /\ ~flushRet[2].waited
    /\ lastCall.op = "start"
    /\ lastCall.outcome = "PoolClosed"

\* Each of the three transitions is taken.
C24_OpenToClosedTaken ==
    lastCall.op = "flush" /\ lastCall.id = 1 /\ lastCall.outcome = "resolved"

\* C25: a start call on a pool that is not Open fails with PoolClosed even
\* when its unit is not callable or the pool is saturated with a full queue;
\* a start call with a unit that is not callable on an Open pool fails with
\* InvalidTask even when the pool is saturated with a full queue.
C25_AdmissionChecksOrdered ==
    [][StartStep =>
        /\ (~PoolOpen /\ (lastCall'.fn # "function" \/ (AtCapacity /\ QueueFull))) =>
                lastCall'.outcome = "PoolClosed"
        /\ (PoolOpen /\ lastCall'.fn # "function") =>
                lastCall'.outcome = "InvalidTask"]_vars

\* The order of the checks as the code has it: _isDone, then typeof fn, then
\* the capacity and the queue.
C25_ChecksInCodeOrder ==
    [][StartStep =>
        /\ isDone => lastCall'.outcome = "PoolClosed"
        /\ (~isDone /\ lastCall'.fn # "function") => lastCall'.outcome = "InvalidTask"
        /\ lastCall'.outcome = "QueueOverflow" =>
                ~isDone /\ lastCall'.fn = "function" /\ AtCapacity /\ QueueFull]_vars

\* A unit that is not callable was refused as such by a saturated pool with a
\* full queue.
C25_InvalidTaskWhenFull ==
    /\ lastCall.op = "start"
    /\ lastCall.outcome = "InvalidTask"
    /\ AtCapacity
    /\ QueueFull
    /\ PoolOpen

\* A closed pool refused a unit that is not callable as closed.
C25_PoolClosedWhenInvalid ==
    /\ lastCall.op = "start"
    /\ lastCall.outcome = "PoolClosed"
    /\ lastCall.fn # "function"

\* C26: the bodies begin in the order in which the slots were granted: a
\* granted slot (at once, or as a released call resumes) goes to the end of
\* the callbacks set, the body that begins is the one at their head, and no
\* other step touches them.  For one producer that awaits each start call
\* before it makes the next, the k-th body to begin is that of the k-th unit
\* submitted, however the units settle.
C26_BodiesBeginInGrantOrder ==
    /\ [](scenario.kind = "cursor" => ops = [k \in 1..Len(ops) |-> k])
    /\ [][IF lastCall'.op \in {"start", "resumeStart"} /\ lastCall'.outcome = "granted"
          THEN immediates' = Append(immediates, lastCall'.id)
          ELSE IF BodyBeginsStep
          THEN lastCall'.id = Head(immediates) /\ immediates' = Tail(immediates)
          ELSE immediates' = immediates]_vars

\* C26 witness: every unit of the cursor has begun, in the order submitted,
\* after start calls that waited; the first unit is still running and all the
\* later ones have settled before it.
C26_Witness ==
    /\ scenario.kind = "cursor"
    /\ ops = [k \in 1..MaxTestUnits |-> k]
    /\ numConcurrent = 2
    /\ running = {1}
    /\ InPool = {1}

\* Units that were granted a slot and have not settled: fn is set to be called,
\* or was called and its promise is pending.
Scheduled == SeqToSet(immediates) \cup running

\* C27: the counter is the number of units granted a slot less the number of
\* units settled, that is the number of units granted and not settled; it
\* changes only by a grant (one up) and by a settlement (one down, for a unit
\* that was running and is no longer); and every unit granted a slot settles
\* and gives it back.
C27_SlotAccountingConserved ==
    /\ [](numActive = Len(immediates) + Cardinality(running))
    /\ [](Cardinality(SeqToSet(immediates)) = Len(immediates))
    /\ [](SeqToSet(immediates) \cap running = {})
    /\ [][IF lastCall'.op \in {"start", "resumeStart"} /\ lastCall'.outcome = "granted"
          THEN /\ numActive' = numActive + 1
               /\ lastCall'.id \notin Scheduled
               /\ Scheduled' = Scheduled \cup {lastCall'.id}
          ELSE IF lastCall'.op = "onJoin"
          THEN /\ numActive' = numActive - 1
               /\ lastCall'.id \in running
               /\ Scheduled' = Scheduled \ {lastCall'.id}
          ELSE numActive' = numActive /\ Scheduled' = Scheduled]_vars
    /\ \A u \in Units : (u \in Scheduled) ~> (u \notin Scheduled)

\* C27 witness: of two running units one has settled and released a waiting
\* start call; the counter is down to the unit still running.
C27_Witness ==
    /\ lastCall.op = "onJoin"
    /\ lastCall.outcome = "released"
    /\ numActive = 1
    /\ Cardinality(running) = 1
    /\ immediates = <<>>

\* C28: a start call that resolves has its unit called once, and every call
\* of a unit is that of one resolved start call: the resolving step sets one
\* callback for the unit, the callback calls it and is gone, a unit is never
\* set or running twice over, and every callback set is run.  A waiting call
\* is released by one settlement: it leaves the queue for one promise job,
\* and that job is the one that resumes it.
C28_OneInvocationPerStart ==
    /\ [](/\ Cardinality(SeqToSet(immediates)) = Len(immediates)
          /\ SeqToSet(immediates) \cap running = {}
          /\ Cardinality(SeqToSet(pending)) = Len(pending)
          /\ Cardinality(Released) = Len(SelectSeq(microtasks, LAMBDA j : j.kind = "start"))
          /\ SeqToSet(pending) \cap Released = {}
          /\ (SeqToSet(pending) \cup Released) \cap Scheduled = {})
    /\ [][IF lastCall'.op \in {"start", "resumeStart"} /\ lastCall'.outcome = "granted"
          THEN /\ immediates' = Append(immediates, lastCall'.id)
               /\ running' = running
               /\ lastCall'.op = "resumeStart" =>
                    lastCall'.id \in Released /\ lastCall'.id \notin Released'
          ELSE IF BodyBeginsStep
          THEN /\ lastCall'.id \in SeqToSet(immediates)
               /\ lastCall'.id \notin SeqToSet(immediates')
               /\ running' = running \cup {lastCall'.id}
          ELSE /\ immediates' = immediates
               /\ running' \subseteq running]_vars
    /\ [][IF lastCall'.op = "onJoin" /\ lastCall'.outcome = "released"
          THEN /\ Released' = Released \cup {Head(pending)}
               /\ pending' = Tail(pending)
          ELSE /\ Released' \subseteq Released
               /\ SeqToSet(pending') \cap Released = {}]_vars
    /\ \A u \in Units : (u \in SeqToSet(immediates)) ~> (u \in running)

\* C28 witness: on a pool of capacity 1 the unit of the second start call,
\* which waited and was released by the settlement of the first, has been
\* called.
C28_Witness ==
    /\ lastCall.op = "runImmediate"
    /\ lastCall.id = 2
    /\ numConcurrent = 1
    /\ numActive = 1
    /\ running = {2}
    /\ pending = <<>>

====
